---- MODULE Spec2Model ----
(***************************************************************************)
(* Model of run_bot_with_autorestart.py: a supervisor that launches the    *)
(* bot as a child process, waits for it, and decides from the exit status  *)
(* whether to stop, relaunch, or relaunch after a delay.                   *)
(*                                                                         *)
(* The script is one sequential loop.  Its position is pc:                 *)
(*   "init"        line 24, before restart_count and env exist             *)
(*   "init_env"    line 28, restart_count is 0, env does not exist yet     *)
(*   "init_mark"   line 29, env is the copy of os.environ                  *)
(*   "top"         line 31 and the loop's back edge (continue, line 62),   *)
(*                 outside the range the try statement protects            *)
(*   "pause"       line 38, inside time.sleep(2) (until it has returned)   *)
(*   "launch"      line 42, about to call subprocess.run                   *)
(*   "spawned"     line 42, inside subprocess.run: the child has been      *)
(*                 created, Popen has not stored its pid yet               *)
(*   "wait"        line 42, blocked in subprocess.run, child running       *)
(*   "wait_int"    line 42, subprocess.run has taken a KeyboardInterrupt   *)
(*                 and gives the child a short time to end before it kills *)
(*                 it and raises the interrupt again                       *)
(*   "classify"    line 49-51, subprocess.run has returned                 *)
(*   "crash_delay" line 61, inside time.sleep(3)                           *)
(*   "fault_delay" line 70, inside the except Exception handler            *)
(*   "shutdown"    line 65-66, inside the except KeyboardInterrupt handler *)
(*   "exiting"     the script has ended (break, sys.exit(0), or an         *)
(*                 exception nothing catches); the interpreter shuts down  *)
(*                 with the default action for SIGINT restored             *)
(*   "ended"       the supervisor process has ended                        *)
(* Time is counted in whole units; one Sleep step is one unit of sleep.    *)
(* Every print of the loop can raise once standard output cannot be        *)
(* written (its reader has gone): always when it is unbuffered, only when  *)
(* the buffer is flushed otherwise.                                        *)
(***************************************************************************)
EXTENDS Integers, Sequences, FiniteSets

(* ---- bounds ---- *)
\* cap on the number of loop iterations explored (restart_count is unbounded in the code)
MaxIter == 3

(* ---- program constants ---- *)
RestartPause == 2
CrashDelay == 3
FaultDelay == 10
MARKER == "BOT_AUTO_RESTART"
MARKER_VALUE == "1"

\* exit statuses a child may return: clean stop, requested restart, crashes
ExitCodes == {0, 1, 2, 137}
\* value of exit_code before line 49 has ever run, of restart_count before
\* line 24, and of the exit request while the script runs (the name is unbound)
NoCode == -1
\* status of the supervisor while it is still running
Running == -1
\* process status after a KeyboardInterrupt that no except clause catches:
\* exit code 1 (Python < 3.8) or death by SIGINT, reported as 130
UncaughtInterruptStatus == {1, 130}
\* exit request of a script that ends by break or sys.exit(0)
CleanExit == 0
\* exit request of a script that ends by an exception no except clause catches
UncaughtErrorExit == 1
\* process status when the interpreter fails to flush standard output at exit
FlushFailedStatus == 120
\* process status when SIGINT kills the process by its default action
SigintKillStatus == 130

\* os.environ of the supervisor at start: a mapping over some of these keys
EnvKeys == {"PATH", MARKER}
EnvVals == {"0", "1", "/bin"}
\* the values explored for a key: the marker may be inherited as "0" or "1"
ValsOf(k) == IF k = MARKER THEN {"0", "1"} ELSE {"/bin"}
Environs ==
    {e \in UNION {[D -> EnvVals] : D \in SUBSET EnvKeys} : \A k \in DOMAIN e : e[k] \in ValsOf(k)}

VARIABLES
    pc,             \* position of the script
    restart_count,  \* line 24
    environ,        \* os.environ
    env,            \* line 28-29
    exit_code,      \* line 49
    sleepLeft,      \* time units left in the current time.sleep
    childRunning,   \* a child process launched by the supervisor exists
    childEnv,       \* env= argument of the latest subprocess.run call
    exitArg,        \* status the script has ended with (the exit request)
    supExit,        \* exit status of the supervisor process
    stdoutOk,       \* standard output of the supervisor can be written
    interrupted,    \* a KeyboardInterrupt has been delivered
    printFailed,    \* history: a print of the loop has raised
    launches,       \* history: number of subprocess.run calls
    outcomes,       \* history: outcome of each subprocess.run call that ended
    delay,          \* history: time slept since the last outcome
    delays,         \* history: value of delay at each subprocess.run call
    decisions,      \* history: the control decisions taken, with the counter's value
    envBuilds       \* history: number of times lines 28-29 have built env

vars == <<pc, restart_count, environ, env, exit_code, sleepLeft, childRunning,
          childEnv, exitArg, supExit, stdoutOk, interrupted, printFailed, launches,
          outcomes, delay, delays, decisions, envBuilds>>

hist == <<launches, outcomes, delay, delays>>

ExitOutcome(c) == [kind |-> "exit", code |-> c]
FaultOutcome == [kind |-> "fault", code |-> NoCode]

\* a control decision: where it is taken (at), the exit status it looks at (code),
\* the value of restart_count when it is taken (count), which print raised
\* (raised), where the script goes next (act) and for how long it sleeps there
DecisionRecord(at, code, count, raised, act, sleep) ==
    [at |-> at, code |-> code, count |-> count, raised |-> raised,
     act |-> act, sleep |-> sleep]

\* r: a print of the try body raised; hr: the print of the handler raised
Raised(r, hr) == IF hr THEN "handler" ELSE IF r THEN "try" ELSE "none"

\* line 28: os.environ.copy()
EnvCopy(e) == [k \in DOMAIN e |-> e[k]]

\* line 29: env["BOT_AUTO_RESTART"] = "1"
WithMarkerKept(m) ==
    [k \in (DOMAIN m) \cup {MARKER} |-> IF k \in DOMAIN m THEN m[k] ELSE MARKER_VALUE]
WithMarker(m) ==
    [k \in (DOMAIN m) \cup {MARKER} |-> IF k = MARKER THEN MARKER_VALUE ELSE m[k]]

\* state before line 24: restart_count and env are not bound yet
Init ==
    /\ pc = "init"
    /\ restart_count = NoCode
    /\ environ \in Environs
    /\ env = << >>
    /\ exit_code = NoCode
    /\ sleepLeft = 0
    /\ childRunning = FALSE
    /\ childEnv = << >>
    /\ exitArg = NoCode
    /\ supExit = Running
    /\ stdoutOk = TRUE
    /\ interrupted = FALSE
    /\ printFailed = FALSE
    /\ launches = 0
    /\ outcomes = << >>
    /\ delay = 0
    /\ delays = << >>
    /\ decisions = {}
    /\ envBuilds = 0

\* line 24: restart_count = 0
SetCount ==
    /\ pc = "init"
    /\ pc' = "init_env"
    /\ restart_count' = 0
    /\ UNCHANGED <<environ, env, exit_code, sleepLeft, childRunning, childEnv, exitArg,
                   supExit, stdoutOk, interrupted, printFailed, decisions, envBuilds,
                   hist>>

\* line 28: env = os.environ.copy()
CopyEnv ==
    /\ pc = "init_env"
    /\ pc' = "init_mark"
    /\ env' = EnvCopy(environ)
    /\ envBuilds' = envBuilds + 1
    /\ UNCHANGED <<restart_count, environ, exit_code, sleepLeft, childRunning, childEnv,
                   exitArg, supExit, stdoutOk, interrupted, printFailed, decisions, hist>>

\* line 29: env["BOT_AUTO_RESTART"] = "1"
MarkEnv ==
    /\ pc = "init_mark"
    /\ pc' = "top"
    /\ env' = WithMarker(env)
    /\ UNCHANGED <<restart_count, environ, exit_code, sleepLeft, childRunning, childEnv,
                   exitArg, supExit, stdoutOk, interrupted, printFailed, decisions,
                   envBuilds, hist>>

\* whether a print call raises: never while standard output can be written
PrintRaises == IF stdoutOk THEN {FALSE} ELSE {FALSE, TRUE}

\* the script ends with exit request a; the interpreter starts to shut down
ScriptEnds(a) ==
    /\ pc' = "exiting"
    /\ sleepLeft' = 0
    /\ exitArg' = a

\* status of a process whose script ended with exit request a: the request,
\* or 120 when the flush of standard output at exit fails (it can fail only
\* when standard output cannot be written, and need not fail then)
FinalStatus(a) == IF stdoutOk THEN {a} ELSE {a, FlushFailedStatus}

\* lines 67-70: except Exception: print (lines 68-69), then time.sleep(10).
\* hr: the print raises; nothing catches that, the script ends.
ExceptException(hr) ==
    IF hr THEN ScriptEnds(UncaughtErrorExit)
          ELSE /\ pc' = "fault_delay"
               /\ sleepLeft' = FaultDelay
               /\ exitArg' = exitArg

\* line 33: restart_count += 1
NextCountTwice(n) == n + 2
NextCount(n) == n + 1

\* line 34: every iteration but the first pauses
NeedsPauseOnlyFirstRestart(n) == n = 2
NeedsPause(n) == n > 1

\* lines 33-38: count the iteration; print the restart notice and pause
LoopTop ==
    /\ pc = "top"
    /\ restart_count < MaxIter
    /\ restart_count' = NextCount(restart_count)
    /\ \E r \in (IF NeedsPause(restart_count') THEN PrintRaises ELSE {FALSE}) :
       \E hr \in PrintRaises :
         /\ hr => r
         /\ IF r THEN ExceptException(hr)
                 ELSE /\ IF NeedsPause(restart_count')
                           THEN pc' = "pause" /\ sleepLeft' = RestartPause
                           ELSE pc' = "launch" /\ sleepLeft' = 0
                      /\ exitArg' = exitArg
         /\ printFailed' = (printFailed \/ r)
         /\ decisions' = decisions \cup
              {DecisionRecord("top", NoCode, restart_count', Raised(r, hr), pc', sleepLeft')}
    /\ UNCHANGED <<environ, env, exit_code, childRunning, childEnv, supExit, stdoutOk,
                   interrupted, envBuilds, hist>>

\* where the script continues when a time.sleep returns
AfterSleep(p) == IF p = "pause" THEN "launch" ELSE "top"

\* lines 38, 61, 70: one time unit of a time.sleep passes; when the time is up
\* the script is still in the line of the sleep, which has yet to return
Sleep ==
    /\ pc \in {"pause", "crash_delay", "fault_delay"}
    /\ sleepLeft > 0
    /\ sleepLeft' = sleepLeft - 1
    /\ delay' = delay + 1
    /\ UNCHANGED <<pc, restart_count, environ, env, exit_code, childRunning, childEnv,
                   exitArg, supExit, stdoutOk, interrupted, printFailed, launches,
                   outcomes, delays, decisions, envBuilds>>

\* lines 38, 61, 70: the time.sleep returns and the script goes on: to line 42
\* after the pause, to the loop's back edge (continue, line 62, or the end of
\* the except Exception handler) after a delay
SleepReturns ==
    /\ pc \in {"pause", "crash_delay", "fault_delay"}
    /\ sleepLeft = 0
    /\ pc' = AfterSleep(pc)
    /\ UNCHANGED <<restart_count, environ, env, exit_code, sleepLeft, childRunning,
                   childEnv, exitArg, supExit, stdoutOk, interrupted, printFailed,
                   decisions, envBuilds, hist>>

\* lines 42-46: subprocess.run creates the child (Popen, _fork_exec)
LaunchOk ==
    /\ pc = "launch"
    /\ pc' = "spawned"
    /\ childRunning' = TRUE
    /\ childEnv' = env
    /\ launches' = launches + 1
    /\ delays' = Append(delays, delay)
    /\ UNCHANGED <<restart_count, environ, env, exit_code, sleepLeft, exitArg, supExit,
                   stdoutOk, interrupted, printFailed, outcomes, delay, decisions,
                   envBuilds>>

\* lines 42-46: Popen stores the pid; subprocess.run starts waiting for the child
SpawnReturns ==
    /\ pc = "spawned"
    /\ pc' = "wait"
    /\ UNCHANGED <<restart_count, environ, env, exit_code, sleepLeft, childRunning,
                   childEnv, exitArg, supExit, stdoutOk, interrupted, printFailed,
                   decisions, envBuilds, hist>>

\* lines 42-46, 67-70: subprocess.run raises before a child exists
LaunchFault ==
    /\ pc = "launch"
    /\ \E hr \in PrintRaises :
         /\ ExceptException(hr)
         /\ printFailed' = (printFailed \/ hr)
         /\ decisions' = decisions \cup
              {DecisionRecord("fault", NoCode, restart_count, Raised(FALSE, hr), pc', sleepLeft')}
    /\ childEnv' = env
    /\ launches' = launches + 1
    /\ delays' = Append(delays, delay)
    /\ outcomes' = Append(outcomes, FaultOutcome)
    /\ delay' = 0
    /\ UNCHANGED <<restart_count, environ, env, exit_code, childRunning, supExit,
                   stdoutOk, interrupted, envBuilds>>

WaitFaultLeavesChild ==
    /\ pc = "wait"
    /\ \E hr \in PrintRaises :
         /\ ExceptException(hr)
         /\ printFailed' = (printFailed \/ hr)
         /\ decisions' = decisions \cup
              {DecisionRecord("fault", NoCode, restart_count, Raised(FALSE, hr), pc', sleepLeft')}
    /\ childRunning' = TRUE
    /\ outcomes' = Append(outcomes, FaultOutcome)
    /\ delay' = 0
    /\ UNCHANGED <<restart_count, environ, env, exit_code, childEnv, supExit, stdoutOk,
                   interrupted, launches, delays, envBuilds>>

\* lines 42-46, 67-70: subprocess.run raises while waiting; it kills the child first
WaitFault ==
    /\ pc = "wait"
    /\ \E hr \in PrintRaises :
         /\ ExceptException(hr)
         /\ printFailed' = (printFailed \/ hr)
         /\ decisions' = decisions \cup
              {DecisionRecord("fault", NoCode, restart_count, Raised(FALSE, hr), pc', sleepLeft')}
    /\ childRunning' = FALSE
    /\ outcomes' = Append(outcomes, FaultOutcome)
    /\ delay' = 0
    /\ UNCHANGED <<restart_count, environ, env, exit_code, childEnv, supExit, stdoutOk,
                   interrupted, launches, delays, envBuilds>>

\* lines 42-49: the child terminates, subprocess.run returns its status
ChildExit ==
    /\ pc = "wait"
    /\ \E c \in ExitCodes :
         /\ exit_code' = c
         /\ outcomes' = Append(outcomes, ExitOutcome(c))
    /\ childRunning' = FALSE
    /\ pc' = "classify"
    /\ delay' = 0
    /\ UNCHANGED <<restart_count, environ, env, sleepLeft, childEnv, exitArg, supExit,
                   stdoutOk, interrupted, printFailed, launches, delays, decisions,
                   envBuilds>>

\* lines 51-62: what the loop does with an exit status
\*   "stop" = break, "restart" = continue, "delay" = time.sleep(3) then continue
Decision(c) == IF c = 0 THEN "stop" ELSE IF c # 1 THEN "delay" ELSE "restart"

\* lines 51-62, 67-70: print the notice (lines 53, 57, 60) and act on the status;
\* a print that raises sends the loop to the except Exception handler instead
Classify ==
    /\ pc = "classify"
    /\ \E r \in PrintRaises : \E hr \in PrintRaises :
         /\ hr => r
         /\ IF r THEN ExceptException(hr)
                 ELSE CASE Decision(exit_code) = "stop" -> ScriptEnds(CleanExit)
                        [] Decision(exit_code) = "delay" ->
                              pc' = "crash_delay" /\ sleepLeft' = CrashDelay /\ exitArg' = exitArg
                        [] OTHER ->
                              pc' = "top" /\ sleepLeft' = 0 /\ exitArg' = exitArg
         /\ printFailed' = (printFailed \/ r)
         /\ decisions' = decisions \cup
              {DecisionRecord("classify", exit_code, restart_count, Raised(r, hr), pc', sleepLeft')}
    /\ UNCHANGED <<restart_count, environ, env, exit_code, childRunning, childEnv,
                   supExit, stdoutOk, interrupted, envBuilds, hist>>

\* lines 33-62: positions inside the range the try statement protects, where
\* except KeyboardInterrupt applies.  The loop's back edge and line 31 ("top"),
\* lines 24-29 and both except handlers are outside it.
InTryBody(p) == p \in {"pause", "launch", "spawned", "wait", "classify", "crash_delay"}

\* where a SIGINT has an effect of its own.  One that arrives before or
\* during the call of line 28 is raised there.  One that arrives between that
\* call and the first iteration is raised at the first check the interpreter
\* makes after it, inside subprocess.run (position "launch"); at the back
\* edge the jump itself makes the check.
InterruptRaisedAt(p, n) ==
    p \notin {"ended", "shutdown", "wait_int", "init_mark"} /\ ~(p = "top" /\ n = 0)

\* a SIGINT is delivered to the supervisor (one per run is explored).
\* In the try body the KeyboardInterrupt is caught by line 64; subprocess.run
\* waiting for the child takes it first and lets the child end; one raised
\* while the child is being created leaves the child running.  In lines 24-29,
\* at the back edge and in the except Exception handler nothing catches it.
\* While the interpreter shuts down the signal kills the process.
Interrupt ==
    /\ ~interrupted
    /\ InterruptRaisedAt(pc, restart_count)
    /\ interrupted' = TRUE
    /\ sleepLeft' = 0
    /\ IF InTryBody(pc)
         THEN /\ pc' = IF pc = "wait" THEN "wait_int" ELSE "shutdown"
              /\ supExit' = supExit
         ELSE /\ pc' = "ended"
              /\ supExit' \in (IF pc = "exiting" THEN {SigintKillStatus}
                                                 ELSE UncaughtInterruptStatus)
    /\ UNCHANGED <<restart_count, environ, env, exit_code, childRunning, childEnv,
                   exitArg, stdoutOk, printFailed, decisions, envBuilds, hist>>

\* the child ends by itself while subprocess.run, interrupted, still waits for
\* it; its exit status is not read
ChildExitsUnread ==
    /\ pc = "wait_int"
    /\ childRunning
    /\ childRunning' = FALSE
    /\ UNCHANGED <<pc, restart_count, environ, env, exit_code, sleepLeft, childEnv,
                   exitArg, supExit, stdoutOk, interrupted, printFailed, decisions,
                   envBuilds, hist>>

\* lines 42-46, 64: subprocess.run kills the child if it still runs and raises
\* the KeyboardInterrupt again; line 64 catches it
InterruptedWaitEnds ==
    /\ pc = "wait_int"
    /\ pc' = "shutdown"
    /\ childRunning' = FALSE
    /\ UNCHANGED <<restart_count, environ, env, exit_code, sleepLeft, childEnv,
                   exitArg, supExit, stdoutOk, interrupted, printFailed, decisions,
                   envBuilds, hist>>

\* lines 65-66: print the shutdown message, then sys.exit(0); a print that
\* raises is caught by nothing
Shutdown ==
    /\ pc = "shutdown"
    /\ \E r \in PrintRaises :
         /\ ScriptEnds(IF r THEN UncaughtErrorExit ELSE CleanExit)
         /\ printFailed' = (printFailed \/ r)
    /\ UNCHANGED <<restart_count, environ, env, exit_code, childRunning, childEnv,
                   supExit, stdoutOk, interrupted, decisions, envBuilds, hist>>

\* the interpreter has shut down: the process ends with its final status
ProcessExit ==
    /\ pc = "exiting"
    /\ pc' = "ended"
    /\ supExit' \in FinalStatus(exitArg)
    /\ UNCHANGED <<restart_count, environ, env, exit_code, sleepLeft, childRunning,
                   childEnv, exitArg, stdoutOk, interrupted, printFailed, decisions,
                   envBuilds, hist>>

\* the reader of the supervisor's standard output goes away
CloseStdout ==
    /\ pc # "ended"
    /\ stdoutOk
    /\ stdoutOk' = FALSE
    /\ UNCHANGED <<pc, restart_count, environ, env, exit_code, sleepLeft, childRunning,
                   childEnv, exitArg, supExit, interrupted, printFailed, decisions,
                   envBuilds, hist>>

Next ==
    \/ SetCount
    \/ CopyEnv
    \/ MarkEnv
    \/ LoopTop
    \/ Sleep
    \/ SleepReturns
    \/ LaunchOk
    \/ SpawnReturns
    \/ LaunchFault
    \/ WaitFault
    \/ ChildExit
    \/ Classify
    \/ Interrupt
    \/ ChildExitsUnread
    \/ InterruptedWaitEnds
    \/ Shutdown
    \/ ProcessExit
    \/ CloseStdout

Spec == Init /\ [][Next]_vars

\* the supervisor's own steps; interrupts and the loss of standard output are
\* the environment's
Progress ==
    \/ SetCount
    \/ CopyEnv
    \/ MarkEnv
    \/ LoopTop
    \/ Sleep
    \/ SleepReturns
    \/ LaunchOk
    \/ SpawnReturns
    \/ LaunchFault
    \/ WaitFault
    \/ ChildExit
    \/ Classify
    \/ InterruptedWaitEnds
    \/ Shutdown
    \/ ProcessExit

\* every child run and every delay eventually finishes, and the loop keeps running
FairSpec == Spec /\ WF_vars(Progress)

TypeOK ==
    /\ pc \in {"init", "init_env", "init_mark", "top", "pause", "launch", "spawned", "wait", "wait_int",
               "classify", "crash_delay", "fault_delay", "shutdown", "exiting", "ended"}
    /\ restart_count \in {NoCode} \cup 0..MaxIter
    /\ exitArg \in {NoCode, CleanExit, UncaughtErrorExit}
    /\ exit_code \in ExitCodes \cup {NoCode}
    /\ sleepLeft \in 0..FaultDelay
    /\ childRunning \in BOOLEAN
    /\ stdoutOk \in BOOLEAN
    /\ interrupted \in BOOLEAN
    /\ printFailed \in BOOLEAN
    /\ launches \in 0..MaxIter
    /\ supExit \in {Running, CleanExit, UncaughtErrorExit, FlushFailedStatus, SigintKillStatus}
                  \cup UncaughtInterruptStatus

(* ---- helpers for the properties ---- *)
Ended == pc = "ended"
CleanStop == Len(outcomes) > 0 /\ outcomes[Len(outcomes)] = ExitOutcome(0)
LastOutcomeIs(o) == Len(outcomes) > 0 /\ outcomes[Len(outcomes)] = o
\* launch attempt i (i >= 2) follows outcome i-1
Relaunches == 2..Len(delays)
IsCrash(o) == o.kind = "exit" /\ o.code \notin {0, 1}
\* every subprocess.run call so far returned an exit status (no launch fault)
OnlyExits == \A i \in 1..Len(outcomes) : outcomes[i].kind = "exit"
\* the interrupt was taken by a waiting subprocess.run
InterruptedWhileWaiting ==
    interrupted /\ launches = Len(outcomes) + 1 /\ (pc = "wait_int" \/ ~childRunning)
ScenarioB == <<ExitOutcome(1), ExitOutcome(1), ExitOutcome(0)>>

(* ---- C1 ---- *)
\* C1: once a child has returned exit status 0 the loop has terminated and no
\* launch occurs afterwards, whatever the number of launches before it.
C1_CleanExitStops ==
    \A i \in 1..Len(outcomes) :
        outcomes[i] = ExitOutcome(0) =>
            (launches = i /\ pc \in {"classify", "shutdown", "exiting", "ended"})

(* ---- C2 ---- *)
\* C2: whenever a child returns exit status 1 and no interrupt arrives, a
\* relaunch follows (the supervisor does not end), and the total delay between
\* that exit and the relaunch is strictly less than 2 time units.
C2_RelaunchWithoutDelay ==
    /\ \A i \in Relaunches : outcomes[i-1] = ExitOutcome(1) => delays[i] < RestartPause
    /\ (LastOutcomeIs(ExitOutcome(1)) /\ ~interrupted) => pc \notin {"exiting", "ended"}

(* ---- C3 ---- *)
\* C3: after a child exit with a status other than 0 and 1 and no interrupt,
\* the supervisor does not end, and the relaunch that follows comes after at
\* least 3 time units of delay.
C3_CrashDelayed ==
    /\ \A i \in Relaunches : IsCrash(outcomes[i-1]) => delays[i] >= CrashDelay
    /\ (Len(outcomes) > 0 /\ IsCrash(outcomes[Len(outcomes)]) /\ ~interrupted) => ~Ended

(* ---- C4 ---- *)
\* C4: an interrupt delivered at any point of the loop (waiting on the child,
\* in the 2-unit pause, in the 3-unit crash delay, in the 10-unit fault delay)
\* makes the supervisor end with exit status 0.
C4_InterruptExitsZero ==
    (interrupted /\ Ended) => supExit = 0

(* ---- C5 ---- *)
\* C5: an interrupt delivered while the supervisor waits on a running child
\* ends the supervisor with status 0, and that child's exit status is never
\* classified.
C5_InterruptWhileWaiting ==
    InterruptedWhileWaiting =>
        (/\ pc \in {"wait_int", "shutdown", "exiting", "ended"}
         /\ Ended => supExit = 0)

(* ---- C6 ---- *)
\* C6: a launch fault never ends the supervisor: unless an interrupt arrives
\* the supervisor is still running after it, and the next launch attempt
\* comes after at least 10 time units of delay.
C6_FaultRetried ==
    /\ (Ended /\ ~interrupted) => ~LastOutcomeIs(FaultOutcome)
    /\ \A i \in Relaunches : outcomes[i-1] = FaultOutcome => delays[i] >= FaultDelay

(* ---- C7 ---- *)
\* C7: whenever the supervisor has ended, what ended it was a child exit with
\* status 0 or an interrupt; no other exit status and no launch fault does.
C7_EndsOnlyOnZeroOrInterrupt ==
    Ended => (interrupted \/ (CleanStop /\ exit_code = 0))

(* ---- C8 ---- *)
\* C8: at every launch, in every iteration, the environment handed to the
\* child contains BOT_AUTO_RESTART with value "1".
C8_MarkerInChildEnv ==
    launches > 0 => (MARKER \in DOMAIN childEnv /\ childEnv[MARKER] = MARKER_VALUE)

C8_Witness ==
    /\ launches = 3 /\ Len(outcomes) >= 2
    /\ outcomes[1] = FaultOutcome /\ outcomes[2] = ExitOutcome(1)
    /\ MARKER \in DOMAIN environ /\ environ[MARKER] = "0"
    /\ childEnv[MARKER] = MARKER_VALUE

(* ---- C9 ---- *)
\* C9: for the exit sequence 1, 1, 0 without launch faults or interrupts
\* there are exactly 3 launches, no delay before launch 2, a 2-unit delay
\* before launch 3, and the supervisor ends after launch 3.
C9_ScenarioB ==
    (outcomes = ScenarioB /\ ~interrupted) =>
        /\ launches = 3
        /\ delays = <<0, 0, RestartPause>>
        /\ pc \in {"classify", "exiting", "ended"}

(* ---- C10 ---- *)
\* C10: without an interrupt, and with every child run and every delay
\* finishing, each launch attempt that ends in a non-zero exit or in a fault
\* is eventually followed by another launch attempt, however many came before
\* (up to the iteration cap of the model).
C10_RetriedForever ==
    \A n \in 1..(MaxIter - 1) :
        (launches = n /\ ~Ended)
           ~> \/ launches = n + 1
              \/ interrupted
              \/ (Ended /\ CleanStop)
              \/ (pc = "top" /\ restart_count = MaxIter)

(* ---- C11 ---- *)
\* an iteration of the loop starts: the script leaves line 31
IterationStarts == pc = "top" /\ pc' # "top" /\ interrupted' = interrupted

\* C11: the restart counter is set to 0 before the first iteration, every
\* loop iteration (also one whose launch ends in a fault) adds exactly 1 to
\* it, and nothing else changes it: it is never decreased or reset.
C11_CounterGrowsByOne ==
    /\ []((pc = "top" /\ decisions = {}) => restart_count = 0)
    /\ [](restart_count # NoCode => (restart_count >= launches /\ launches >= Len(outcomes)))
    /\ [][IF pc = "init" /\ pc' # "init" /\ interrupted' = interrupted THEN restart_count' = 0
          ELSE IF IterationStarts THEN restart_count' = restart_count + 1
                                  ELSE restart_count' = restart_count]_vars

C11_Witness ==
    /\ restart_count = 3 /\ Len(outcomes) >= 2
    /\ outcomes[1] = FaultOutcome /\ outcomes[2] = FaultOutcome

(* ---- C12 ---- *)
\* two decisions taken at the same place, on the same exit status, with the
\* same prints raising
SameSituation(a, b) == a.at = b.at /\ a.code = b.code /\ a.raised = b.raised
SameAction(a, b) == a.act = b.act /\ a.sleep = b.sleep

\* C12 (as stated): the control decisions (pause or not, for how long,
\* relaunch or stop) are the same for every value of the restart counter.
C12_Original ==
    \A a \in decisions : \A b \in decisions : SameSituation(a, b) => SameAction(a, b)

\* C12 (amended): the restart counter decides one thing: an iteration takes
\* the 2-unit pause before its launch exactly when the counter is greater than
\* 1.  Every other decision (stop, relaunch, crash delay, fault delay) is the
\* same for every value of the counter, and so is the pause for every value
\* greater than 1.
C12_CounterDecidesOnlyFirstPause ==
    /\ \A a \in decisions : \A b \in decisions :
          (SameSituation(a, b) /\ (a.at = "top" => ((a.count > 1) <=> (b.count > 1))))
             => SameAction(a, b)
    /\ \A a \in decisions :
          (a.at = "top" /\ a.raised = "none") =>
              IF a.count > 1 THEN a.act = "pause" /\ a.sleep = 2
                             ELSE a.act = "launch" /\ a.sleep = 0

C12_Witness ==
    /\ \E a \in decisions : \E b \in decisions :
          /\ a.at = "top" /\ b.at = "top" /\ a.count = 2 /\ b.count = 3
          /\ a.raised = "none" /\ b.raised = "none"
    /\ \E a \in decisions : \E b \in decisions :
          /\ a.at = "classify" /\ b.at = "classify" /\ a.code = b.code
          /\ a.count # b.count /\ a.raised = b.raised

(* ---- C13 ---- *)
\* m is the environment e plus the marker key
IsOverlayOf(m, e) ==
    /\ DOMAIN m = (DOMAIN e) \cup {MARKER}
    /\ m[MARKER] = MARKER_VALUE
    /\ \A k \in (DOMAIN e) \ {MARKER} : m[k] = e[k]

\* C13: the overlay is recomputed for every launch (one computation per
\* launch, none carried over), and at each launch it is the supervisor's
\* environment plus the marker key.
C13_OverlayPerLaunch ==
    launches > 0 => (envBuilds >= launches /\ IsOverlayOf(childEnv, environ))

(* ---- C14 ---- *)
\* C14: at most one child exists at any time: while the supervisor runs its
\* loop a child exists only inside subprocess.run, never during a pause or
\* delay, and a launch is made only when every earlier launch has ended and
\* its outcome has been read.
C14_OneChildAtATime ==
    /\ [](launches - Len(outcomes) \in {0, 1})
    /\ [](childRunning => launches = Len(outcomes) + 1)
    /\ [](childRunning => (pc \in {"spawned", "wait"} \/ interrupted))
    /\ [](pc = "wait" => childRunning)
    /\ []((pc \in {"top", "pause", "launch", "classify", "crash_delay", "fault_delay"}) =>
             (~childRunning /\ launches = Len(outcomes)))
    /\ [][(launches' # launches) =>
             (~childRunning /\ launches = Len(outcomes) /\ launches' = launches + 1)]_vars

C14_Witness ==
    /\ pc = "wait" /\ childRunning /\ launches = 3 /\ Len(outcomes) = 2
    /\ outcomes[1] = FaultOutcome /\ IsCrash(outcomes[2])

(* ---- C15 ---- *)
\* the total delay the claim gives for a launch attempt that follows outcome o
ClaimedDelayAfter(o) ==
    IF o.kind = "fault" THEN 12 ELSE IF o.code = 1 THEN 2 ELSE 5

\* C15: the total delay before a launch attempt depends only on the outcome
\* of the previous attempt: 0 before the first attempt, exactly 2 after an
\* exit with status 1, exactly 5 after any other non-zero exit, exactly 12
\* after a launch fault.
C15_DelayByPreviousOutcome ==
    \A i \in 1..Len(delays) :
        IF i = 1 THEN delays[i] = 0
        ELSE outcomes[i-1] # ExitOutcome(0) => delays[i] = ClaimedDelayAfter(outcomes[i-1])

(* ---- C16 ---- *)
NoZeroBefore(n) == \A i \in 1..(n - 1) : outcomes[i].code # 0
ZeroOnlyLast ==
    /\ Len(outcomes) > 0 /\ outcomes[Len(outcomes)].code = 0
    /\ NoZeroBefore(Len(outcomes))
ScenarioC == <<ExitOutcome(137), ExitOutcome(137), ExitOutcome(0)>>

\* C16: with no launch faults and no interrupts, for a sequence of exit
\* statuses whose only 0 is the last one the supervisor makes exactly as many
\* launches as the sequence has elements, does not end before the 0 and ends,
\* with no further launch, after it; 137, 137, 0 gives 3 launches and the end.
C16_LaunchesMatchSequence ==
    /\ (OnlyExits /\ ~interrupted /\ ZeroOnlyLast) =>
          (launches = Len(outcomes) /\ pc \in {"classify", "exiting", "ended"})
    /\ (OnlyExits /\ ~interrupted /\ NoZeroBefore(Len(outcomes) + 1)) => ~Ended
    /\ (outcomes = ScenarioC /\ ~interrupted) => launches = 3

(* ---- C17 ---- *)
\* C17: whenever a launch attempt is made the restart counter equals the
\* number of launch attempts made so far, faulted ones included; so after a
\* fault on the very first attempt the next attempt is made with counter 2.
C17_CounterCountsAttempts ==
    [][(launches' # launches) =>
          (restart_count = launches + 1 /\ restart_count' = launches')]_vars
====
